---- MODULE Spec2Model ----
(***************************************************************************)
(* Construction of the layer stacks of rllib/core/models/torch/            *)
(* primitives.py: TorchMLP.__init__ and TorchCNN.__init__, and the shape   *)
(* a tensor takes when TorchCNN.forward pushes it through the stack.       *)
(*                                                                         *)
(* A constructor call is a small state machine: pc is the statement the    *)
(* constructor is at, args are its keyword arguments, self maps every      *)
(* attribute assigned so far to its value and locals does the same for the *)
(* local variables.  An attribute or local that was never assigned is not  *)
(* in the domain of its map.                                               *)
(***************************************************************************)
EXTENDS Integers, Sequences, FiniteSets, TLC

VARIABLES pc, args, self, locals

vars == <<pc, args, self, locals>>

(***************************************************************************)
(* Bounds of the explored inputs.                                          *)
(***************************************************************************)
MaxInputDim == 2
MaxHiddenDim == 2
MaxHiddenLayers == 2
MaxOutputDim == 2

(***************************************************************************)
(* Python values.  An Optional[int] is None or Some(n); an int and None    *)
(* are never compared directly.                                            *)
(***************************************************************************)
None == <<>>
Some(v) == <<v>>
Val(o) == o[1]

\* Python truthiness of an Optional[int]: None and 0 are falsy.
Truthy(o) == o # None /\ Val(o) # 0

\* Python 0-based indexing of a list.
At(list, k) == list[k + 1]

\* obj.name = v / name = v
SetAttr(obj, name, v) ==
    [a \in (DOMAIN obj) \cup {name} |-> IF a = name THEN v ELSE obj[a]]

HasAttr(obj, name) == name \in DOMAIN obj

NoAttrs == <<>>

(***************************************************************************)
(* torch.nn modules, as the records of their constructor arguments.        *)
(***************************************************************************)
Linear(in_features, out_features, bias) ==
    [type |-> "Linear", in_features |-> in_features,
     out_features |-> out_features, bias |-> bias]

LayerNorm(normalized_shape) ==
    [type |-> "LayerNorm", normalized_shape |-> normalized_shape]

Activation(cls) == [type |-> cls]

Sequential(modules) == modules

(***************************************************************************)
(* get_activation_fn(name, framework="torch"): the torch.nn class of an    *)
(* activation name; "linear" (no activation) gives None.                   *)
(***************************************************************************)
ActivationNames == {"linear", "relu", "tanh"}

get_activation_fn(name) ==
    CASE name = "linear" -> None
      [] name = "relu" -> Some("ReLU")
      [] name = "tanh" -> Some("Tanh")

(***************************************************************************)
(* TorchMLP.__init__                                                       *)
(***************************************************************************)
HiddenLayerDims ==
    UNION {[1..n -> 1..MaxHiddenDim] : n \in 0..MaxHiddenLayers}

MLPArgs ==
    [input_dim : (-1)..MaxInputDim,
     hidden_layer_dims : HiddenLayerDims,
     hidden_layer_activation : ActivationNames,
     hidden_layer_use_layernorm : BOOLEAN,
     output_dim : {None} \cup {Some(n) : n \in 0..MaxOutputDim},
     output_activation : ActivationNames,
     use_bias : BOOLEAN]

\* assert input_dim > 0
InputDimNotNegative(input_dim) == input_dim >= 0

InputDimOk(input_dim) == input_dim > 0

\* dims = [self.input_dim] + hidden_layer_dims + ([output_dim] if output_dim else [])
DimsOutputDropped(input_dim, hidden_layer_dims, output_dim) ==
    <<input_dim>> \o hidden_layer_dims

Dims(input_dim, hidden_layer_dims, output_dim) ==
    <<input_dim>> \o hidden_layer_dims
        \o (IF Truthy(output_dim) THEN <<Val(output_dim)>> ELSE <<>>)

\* if output_dim is None or i < len(dims) - 2
AlwaysHiddenSection(output_dim, k, dims) == TRUE

InHiddenSection(output_dim, k, dims) ==
    output_dim = None \/ k < Len(dims) - 2

\* One pass of the body of `for i in range(0, len(dims) - 1)`.
MLPLoopBody(a, dims, k) ==
    LET hidden_activation == get_activation_fn(a.hidden_layer_activation)
    IN  <<Linear(At(dims, k), At(dims, k + 1), a.use_bias)>>
        \o (IF InHiddenSection(a.output_dim, k, dims)
            THEN (IF a.hidden_layer_use_layernorm
                  THEN <<LayerNorm(At(dims, k + 1))>> ELSE <<>>)
                 \o (IF hidden_activation # None
                     THEN <<Activation(Val(hidden_activation))>> ELSE <<>>)
            ELSE <<>>)

\* if output_dim is not None and output_activation is not None: append.
MLPOutputActivation(a) ==
    LET output_activation == get_activation_fn(a.output_activation)
    IN  IF a.output_dim # None /\ output_activation # None
        THEN <<Activation(Val(output_activation))>>
        ELSE <<>>

InitMLP ==
    /\ pc = "mlp_assert"
    /\ args \in MLPArgs
    /\ self = NoAttrs
    /\ locals = NoAttrs

\* super().__init__(); assert input_dim > 0; self.input_dim = input_dim
TorchMLP_assert ==
    /\ pc = "mlp_assert"
    /\ IF InputDimOk(args.input_dim)
       THEN /\ self' = SetAttr(self, "input_dim", args.input_dim)
            /\ pc' = "mlp_dims"
       ELSE /\ self' = self
            /\ pc' = "AssertionError"
    /\ UNCHANGED <<args, locals>>

\* layers = []; dims = ...; the for loop starts at i = 0
TorchMLP_dims ==
    /\ pc = "mlp_dims"
    /\ locals' = SetAttr(SetAttr(SetAttr(locals, "layers", <<>>),
                    "dims", Dims(self.input_dim, args.hidden_layer_dims,
                                 args.output_dim)),
                    "i", 0)
    /\ pc' = "mlp_loop"
    /\ UNCHANGED <<args, self>>

\* One iteration of the for loop.
TorchMLP_loop ==
    /\ pc = "mlp_loop"
    /\ locals.i < Len(locals.dims) - 1
    /\ locals' = SetAttr(SetAttr(locals, "layers",
                    locals.layers \o MLPLoopBody(args, locals.dims, locals.i)),
                    "i", locals.i + 1)
    /\ UNCHANGED <<pc, args, self>>

\* The loop is exhausted: output activation, self.mlp, expected_input_dtype.
TorchMLP_finish ==
    /\ pc = "mlp_loop"
    /\ ~(locals.i < Len(locals.dims) - 1)
    /\ LET layers == locals.layers \o MLPOutputActivation(args)
       IN  /\ locals' = SetAttr(locals, "layers", layers)
           /\ self' = SetAttr(SetAttr(self, "mlp", Sequential(layers)),
                         "expected_input_dtype", "float32")
    /\ pc' = "done"
    /\ UNCHANGED args

NextMLP ==
    \/ TorchMLP_assert
    \/ TorchMLP_dims
    \/ TorchMLP_loop
    \/ TorchMLP_finish

SpecMLP == InitMLP /\ [][NextMLP]_vars

(***************************************************************************)
(* TorchCNN.__init__                                                       *)
(*                                                                         *)
(* A kernel or a stride is a single int, written <<k>>, or a pair          *)
(* <<k0, k1>>, one entry per spatial dimension.                            *)
(***************************************************************************)
MaxSpatialDim == 3
MaxKernel == 2
MaxStride == 2
MaxConvLayers == 2

ZeroPad2d(padding) == [type |-> "ZeroPad2d", padding |-> padding]

Conv2d(in_channels, out_channels, kernel_size, stride, bias) ==
    [type |-> "Conv2d", in_channels |-> in_channels,
     out_channels |-> out_channels, kernel_size |-> kernel_size,
     stride |-> stride, bias |-> bias]

\* An int stands for both dimensions.
Pair(v) == IF Len(v) = 1 THEN <<v[1], v[1]>> ELSE v

\* np.ceil(float(a) / float(b)) for a >= 0, b >= 1
Ceil(a, b) == (a + b - 1) \div b

(***************************************************************************)
(* same_padding(in_size, filter_size, stride_size) of                      *)
(* ray.rllib.models.torch.misc: the output size ceil(in / stride) of       *)
(* tensorflow's SAME mode and the zero padding that produces it, as        *)
(* (left, right, top, bottom); top and bottom belong to the first entry    *)
(* of in_size, left and right to the second.                               *)
(***************************************************************************)
same_padding(in_size, filter_size, stride_size) ==
    LET in_height == in_size[1]
        in_width == in_size[2]
        filter_height == Pair(filter_size)[1]
        filter_width == Pair(filter_size)[2]
        stride_height == Pair(stride_size)[1]
        stride_width == Pair(stride_size)[2]
        out_height == Ceil(in_height, stride_height)
        out_width == Ceil(in_width, stride_width)
        pad_along_height ==
            (out_height - 1) * stride_height + filter_height - in_height
        pad_along_width ==
            (out_width - 1) * stride_width + filter_width - in_width
        pad_top == pad_along_height \div 2
        pad_bottom == pad_along_height - pad_top
        pad_left == pad_along_width \div 2
        pad_right == pad_along_width - pad_left
    IN  [padding |-> <<pad_left, pad_right, pad_top, pad_bottom>>,
         output |-> <<out_height, out_width>>]

KernelSizes == {<<k>> : k \in 1..MaxKernel}

Strides == {<<s>> : s \in 1..MaxStride}

FilterCounts == {1, 2}

\* One specifier [number of filters, kernel, stride]: square kernels and
\* strides given as ints, and one with both given as (width, height) pairs.
FilterSpecifiers ==
    (FilterCounts \X KernelSizes \X Strides)
        \cup {<<2, <<1, MaxKernel>>, <<MaxStride, 1>>>>}

\* (width, height, depth), and the same with the depth missing or with a
\* fourth entry.
InDepths == {3}

InputDims ==
    LET sizes == 1..MaxSpatialDim
    IN  {<<w, h>> : w \in sizes, h \in sizes}
        \cup {<<w, h, d>> : w \in sizes, h \in sizes, d \in InDepths}
        \cup {<<w, h, d, 1>> : w \in sizes, h \in sizes, d \in InDepths}

CNNArgs ==
    [input_dims : InputDims,
     cnn_filter_specifiers :
         UNION {[1..n -> FilterSpecifiers] : n \in 0..MaxConvLayers},
     cnn_use_layernorm : BOOLEAN,
     cnn_activation : {"relu", "linear"},
     use_bias : {TRUE}]

\* assert len(input_dims) == 3
InputDimsAtLeastThree(input_dims) == Len(input_dims) >= 3

InputDimsOk(input_dims) == Len(input_dims) = 3

\* nn.ZeroPad2d(padding), nn.Conv2d(in_depth, out_depth, kernel, stride, bias)
ConvBlockUnpadded(in_depth, out_depth, kernel, stride, padding, use_bias) ==
    <<Conv2d(in_depth, out_depth, kernel, stride, use_bias)>>

ConvBlock(in_depth, out_depth, kernel, stride, padding, use_bias) ==
    <<ZeroPad2d(padding),
      Conv2d(in_depth, out_depth, kernel, stride, use_bias)>>

\* One pass of the body of `for out_depth, kernel, stride in ...`: the
\* modules it appends and the out_size it computes.
CNNLoopBody(a, in_size, in_depth, spec) ==
    LET out_depth == spec[1]
        kernel == spec[2]
        stride == spec[3]
        sp == same_padding(in_size, kernel, stride)
        out_size == sp.output
        cnn_activation == get_activation_fn(a.cnn_activation)
    IN  [out_size |-> out_size,
         out_depth |-> out_depth,
         modules |->
            ConvBlock(in_depth, out_depth, kernel, stride, sp.padding,
                      a.use_bias)
            \o (IF a.cnn_use_layernorm
                THEN <<LayerNorm(<<out_depth, out_size[1], out_size[2]>>)>>
                ELSE <<>>)
            \o (IF cnn_activation # None
                THEN <<Activation(Val(cnn_activation))>> ELSE <<>>)]

\* in_size = out_size
InSizeKept(in_size, out_size) == in_size

NextInSize(in_size, out_size) == out_size

\* self.output_width, self.output_height = out_size
OutputSize(out_size) ==
    [output_width |-> out_size[1], output_height |-> out_size[2]]

InitCNN ==
    /\ pc = "cnn_assert"
    /\ args \in CNNArgs
    /\ self = NoAttrs
    /\ locals = NoAttrs

\* super().__init__(); assert len(input_dims) == 3
TorchCNN_assert ==
    /\ pc = "cnn_assert"
    /\ pc' = IF InputDimsOk(args.input_dims)
             THEN "cnn_unpack" ELSE "AssertionError"
    /\ UNCHANGED <<args, self, locals>>

\* layers = []; width, height, in_depth = input_dims; in_size = [width, height]
\* n counts the specifiers the for loop has consumed.
TorchCNN_unpack ==
    /\ pc = "cnn_unpack"
    /\ locals' = [layers |-> <<>>,
                  width |-> args.input_dims[1],
                  height |-> args.input_dims[2],
                  in_depth |-> args.input_dims[3],
                  in_size |-> <<args.input_dims[1], args.input_dims[2]>>,
                  n |-> 0]
    /\ pc' = "cnn_loop"
    /\ UNCHANGED <<args, self>>

\* One iteration of the for loop.
TorchCNN_loop ==
    /\ pc = "cnn_loop"
    /\ locals.n < Len(args.cnn_filter_specifiers)
    /\ LET body == CNNLoopBody(args, locals.in_size, locals.in_depth,
                               At(args.cnn_filter_specifiers, locals.n))
       IN  locals' =
             SetAttr(SetAttr(SetAttr(SetAttr(SetAttr(SetAttr(locals,
                 "layers", locals.layers \o body.modules),
                 "out_size", body.out_size),
                 "out_depth", body.out_depth),
                 "in_size", NextInSize(locals.in_size, body.out_size)),
                 "in_depth", body.out_depth),
                 "n", locals.n + 1)
    /\ UNCHANGED <<pc, args, self>>

\* The loop is exhausted: output_width, output_height, output_depth, cnn.
\* With no specifier at all out_size was never bound.
TorchCNN_finish ==
    /\ pc = "cnn_loop"
    /\ ~(locals.n < Len(args.cnn_filter_specifiers))
    /\ IF HasAttr(locals, "out_size")
       THEN /\ self' =
                 [output_width |-> OutputSize(locals.out_size).output_width,
                  output_height |-> OutputSize(locals.out_size).output_height,
                  output_depth |-> locals.out_depth,
                  cnn |-> Sequential(locals.layers),
                  expected_input_dtype |-> "float32"]
            /\ pc' = "done"
       ELSE /\ self' = self
            /\ pc' = "UnboundLocalError"
    /\ UNCHANGED <<args, locals>>

NextCNN ==
    \/ TorchCNN_assert
    \/ TorchCNN_unpack
    \/ TorchCNN_loop
    \/ TorchCNN_finish

SpecCNN == InitCNN /\ [][NextCNN]_vars

(***************************************************************************)
(* TorchCNN.forward: the shape <<channels, d1, d2>> of one sample after    *)
(* inputs.permute(0, 3, 1, 2) and after each module of self.cnn.           *)
(* ShapeError stands for the exception torch raises on a shape mismatch.   *)
(***************************************************************************)
ShapeError == <<>>

ApplyModule(m, shape) ==
    CASE shape = ShapeError -> ShapeError
      [] m.type = "ZeroPad2d" ->
            LET d1 == shape[2] + m.padding[3] + m.padding[4]
                d2 == shape[3] + m.padding[1] + m.padding[2]
            IN  IF d1 < 0 \/ d2 < 0 THEN ShapeError ELSE <<shape[1], d1, d2>>
      [] m.type = "Conv2d" ->
            LET k == Pair(m.kernel_size)
                s == Pair(m.stride)
            IN  IF \/ shape[1] # m.in_channels
                   \/ shape[2] < k[1]
                   \/ shape[3] < k[2]
                THEN ShapeError
                ELSE <<m.out_channels,
                       (shape[2] - k[1]) \div s[1] + 1,
                       (shape[3] - k[2]) \div s[2] + 1>>
      [] m.type = "LayerNorm" ->
            IF shape = m.normalized_shape THEN shape ELSE ShapeError
      [] OTHER -> shape

RECURSIVE ApplyStack(_, _, _)
ApplyStack(stack, k, shape) ==
    IF k > Len(stack) THEN shape
    ELSE ApplyStack(stack, k + 1, ApplyModule(stack[k], shape))

forward(stack, input_dims) ==
    ApplyStack(stack, 1, <<input_dims[3], input_dims[1], input_dims[2]>>)

(***************************************************************************)
(* Reading a built stack.                                                  *)
(***************************************************************************)
IsLinear(m) == m.type = "Linear"

LinearsOf(stack) == SelectSeq(stack, IsLinear)

NumLinear(stack) == Len(LinearsOf(stack))

\* The position in the stack of its j-th dense layer, j in 1..NumLinear.
PosOfLinear(stack, j) ==
    CHOOSE p \in 1..Len(stack) :
        /\ IsLinear(stack[p])
        /\ Cardinality({q \in 1..p : IsLinear(stack[q])}) = j

\* What follows position p in the stack.
After(stack, p) == SubSeq(stack, p + 1, Len(stack))

OutputDimGiven == args.output_dim # None

\* The LayerNorm and activation modules configured for hidden layer j.
HiddenModules(j) ==
    (IF args.hidden_layer_use_layernorm
     THEN <<LayerNorm(args.hidden_layer_dims[j])>> ELSE <<>>)
    \o (IF args.hidden_layer_activation # "linear"
        THEN <<Activation(Val(get_activation_fn(args.hidden_layer_activation)))>>
        ELSE <<>>)

\* The module configured to follow an output dense layer.
OutputModules ==
    IF args.output_activation # "linear"
    THEN <<Activation(Val(get_activation_fn(args.output_activation)))>>
    ELSE <<>>

(***************************************************************************)
(* C1: a TorchMLP built from input_dim > 0, hidden_layer_dims of positive  *)
(* sizes and output_dim None or positive holds exactly                     *)
(* len(hidden_layer_dims) + (1 if output_dim is given) dense layers, and   *)
(* with dims = [input_dim] + hidden_layer_dims + [output_dim if given] the *)
(* k-th dense layer maps dims[k] to dims[k + 1].                           *)
(***************************************************************************)
C1_DenseLayersFollowDims ==
    (/\ pc = "done"
     /\ args.input_dim > 0
     /\ (OutputDimGiven => Val(args.output_dim) > 0))
    => LET d == <<args.input_dim>> \o args.hidden_layer_dims
                \o (IF OutputDimGiven THEN <<Val(args.output_dim)>> ELSE <<>>)
           dense == LinearsOf(self.mlp)
       IN  /\ Len(dense) = Len(args.hidden_layer_dims)
                            + (IF OutputDimGiven THEN 1 ELSE 0)
           /\ \A k \in 1..Len(dense) :
                 /\ dense[k].in_features = d[k]
                 /\ dense[k].out_features = d[k + 1]

\* A finished stack of two hidden layers and an output layer.
C1_Witness ==
    /\ pc = "done"
    /\ args.hidden_layer_dims = <<2, 1>>
    /\ args.output_dim = Some(2)
    /\ NumLinear(self.mlp) = 3

(***************************************************************************)
(* C3: with input_dim <= 0 the constructor stops at its assertion: it      *)
(* never gets past it, and the object has neither an mlp nor an input_dim  *)
(* attribute and no layer list was created, whatever the other arguments.  *)
(***************************************************************************)
C3_NonPositiveInputDimAsserts ==
    args.input_dim <= 0
    => /\ pc \in {"mlp_assert", "AssertionError"}
       /\ ~HasAttr(self, "mlp")
       /\ ~HasAttr(self, "input_dim")
       /\ ~HasAttr(locals, "layers")

\* The assertion has failed on input_dim = 0 with hidden layers requested.
C3_Witness ==
    /\ pc = "AssertionError"
    /\ args.input_dim = 0
    /\ Len(args.hidden_layer_dims) = 2
    /\ args.output_dim = Some(1)

(***************************************************************************)
(* C5: when output_dim adds an extra output dense layer, that layer is the *)
(* last dense layer of the stack, has size output_dim, and is followed by  *)
(* nothing but the output activation when one is configured: no LayerNorm  *)
(* and no hidden activation come after it.                                 *)
(***************************************************************************)
C5_OutputLayerHasNoLayerNorm ==
    (/\ pc = "done"
     /\ OutputDimGiven
     /\ Val(args.output_dim) > 0)
    => LET stack == self.mlp
           n == NumLinear(stack)
       IN  /\ n = Len(args.hidden_layer_dims) + 1
           /\ stack[PosOfLinear(stack, n)].out_features = Val(args.output_dim)
           /\ After(stack, PosOfLinear(stack, n)) = OutputModules

\* An output layer after a hidden layer that does use LayerNorm and tanh.
C5_Witness ==
    /\ pc = "done"
    /\ args.output_dim = Some(1)
    /\ args.hidden_layer_dims = <<2>>
    /\ args.hidden_layer_use_layernorm
    /\ args.hidden_layer_activation = "tanh"
    /\ args.output_activation = "relu"
    /\ self.mlp[Len(self.mlp)] = Activation("ReLU")

(***************************************************************************)
(* C6: for every output_dim (None or any integer >= 0) and every entry j   *)
(* of hidden_layer_dims, the dense layer of entry j is immediately         *)
(* followed by a LayerNorm of its size exactly when                        *)
(* hidden_layer_use_layernorm is set, and then by the hidden activation    *)
(* exactly when one is configured.                                         *)
(***************************************************************************)
HiddenLayerIsComplete(stack, j) ==
    LET p == PosOfLinear(stack, j)
        follow == After(stack, p)
        expected == HiddenModules(j)
    IN  /\ Len(follow) >= Len(expected)
        /\ SubSeq(follow, 1, Len(expected)) = expected
        /\ Len(follow) > Len(expected)
           => \/ IsLinear(follow[Len(expected) + 1])
              \/ /\ j = Len(args.hidden_layer_dims)
                 /\ SubSeq(follow, Len(expected) + 1, Len(follow)) = OutputModules

C6_HiddenLayersShareSetup ==
    pc = "done"
    => /\ NumLinear(self.mlp) >= Len(args.hidden_layer_dims)
       /\ \A j \in 1..Len(args.hidden_layer_dims) :
             HiddenLayerIsComplete(self.mlp, j)

\* C6 for the values of output_dim that are None or positive.
C6_HoldsUnlessOutputDimIsZero ==
    args.output_dim # Some(0) => C6_HiddenLayersShareSetup

(***************************************************************************)
(* C7: the step that appends the output activation appends it only if an   *)
(* extra output dense layer of size output_dim is in the stack, and then   *)
(* directly after that dense layer; with no output dense layer the stack   *)
(* stays as the last hidden layer left it.                                 *)
(***************************************************************************)
OutputActivationAppended ==
    /\ pc = "mlp_loop"
    /\ pc' = "done"
    /\ Len(locals'.layers) > Len(locals.layers)

C7_OutputActivationOnlyAfterOutputLayer ==
    [][OutputActivationAppended
       => /\ NumLinear(locals.layers) = Len(args.hidden_layer_dims) + 1
          /\ IsLinear(locals.layers[Len(locals.layers)])
          /\ locals.layers[Len(locals.layers)].out_features
                = Val(args.output_dim)]_vars

\* C7 for the values of output_dim that are None or positive.
C7_HoldsUnlessOutputDimIsZero ==
    [][args.output_dim # Some(0)
       => (OutputActivationAppended
           => /\ NumLinear(locals.layers) = Len(args.hidden_layer_dims) + 1
              /\ IsLinear(locals.layers[Len(locals.layers)])
              /\ locals.layers[Len(locals.layers)].out_features
                    = Val(args.output_dim))]_vars

(***************************************************************************)
(* C2: a TorchCNN built from input_dims = (width, height, depth) and a     *)
(* non-empty list of specifiers records as output_width and output_height  *)
(* the input width and height taken through out = ceil(in / stride) once   *)
(* per specifier, in list order and whatever the kernels, and as           *)
(* output_depth the filter count of the last specifier; with stride 1      *)
(* everywhere the recorded width and height are the input's.               *)
(***************************************************************************)
\* The least n with n * stride >= size.
CeilingOfQuotient(size, stride) ==
    CHOOSE n \in 0..size : n * stride >= size /\ (n - 1) * stride < size

StrideOf(spec, dim) == IF Len(spec[3]) = 1 THEN spec[3][1] ELSE spec[3][dim]

RECURSIVE SamePaddedSize(_, _, _, _)
SamePaddedSize(size, specs, k, dim) ==
    IF k > Len(specs) THEN size
    ELSE SamePaddedSize(CeilingOfQuotient(size, StrideOf(specs[k], dim)),
                        specs, k + 1, dim)

C2_OutputSizeFollowsSamePadding ==
    pc = "done"
    => LET specs == args.cnn_filter_specifiers
           width == args.input_dims[1]
           height == args.input_dims[2]
       IN  /\ Len(specs) >= 1
           /\ self.output_width = SamePaddedSize(width, specs, 1, 1)
           /\ self.output_height = SamePaddedSize(height, specs, 1, 2)
           /\ self.output_depth = specs[Len(specs)][1]
           /\ (\A k \in 1..Len(specs) : Pair(specs[k][3]) = <<1, 1>>)
              => /\ self.output_width = width
                 /\ self.output_height = height

\* Two layers of stride 2 on a 3 x 2 input: 3 -> 2 -> 1 and 2 -> 1 -> 1.
C2_Witness ==
    /\ pc = "done"
    /\ args.input_dims = <<3, 2, 3>>
    /\ Len(args.cnn_filter_specifiers) = 2
    /\ \A k \in 1..2 : args.cnn_filter_specifiers[k][3] = <<2>>
    /\ args.cnn_filter_specifiers[2][1] = 1
    /\ self.output_width = 1
    /\ self.output_height = 1
    /\ self.output_depth = 1

(***************************************************************************)
(* C4: with input_dims of a length other than 3 the constructor stops at   *)
(* its assertion: it never gets past it, no layer list is created and      *)
(* none of output_width, output_height, output_depth and cnn is set,       *)
(* whatever cnn_filter_specifiers is.                                      *)
(***************************************************************************)
C4_WrongInputDimsLengthAsserts ==
    Len(args.input_dims) # 3
    => /\ pc \in {"cnn_assert", "AssertionError"}
       /\ ~HasAttr(locals, "layers")
       /\ \A a \in {"output_width", "output_height", "output_depth", "cnn"} :
             ~HasAttr(self, a)

\* The assertion has failed on four input dimensions with layers requested.
C4_Witness ==
    /\ pc = "AssertionError"
    /\ Len(args.input_dims) = 4
    /\ Len(args.cnn_filter_specifiers) = 2

(***************************************************************************)
(* C8: at every layer the sizes the construction records (the LayerNorm    *)
(* shape, the next layer's input size, output_width and output_height)     *)
(* are the sizes a tensor has there: padding by the SAME amounts and       *)
(* convolving without padding gives floor((in + pad - kernel) / stride)    *)
(* + 1 = ceil(in / stride), also when kernel < stride makes the padding    *)
(* negative.                                                               *)
(***************************************************************************)
C8_RecordedSizesAreTensorSizes ==
    /\ (pc = "cnn_loop" /\ locals.n >= 1)
       => forward(locals.layers, args.input_dims)
             = <<locals.in_depth, locals.in_size[1], locals.in_size[2]>>
    /\ pc = "done"
       => forward(self.cnn, args.input_dims)
             = <<self.output_depth, self.output_width, self.output_height>>

\* A finished stack whose first layer crops (kernel 1 under stride 2) and
\* which normalizes over the recorded shape.
C8_Witness ==
    /\ pc = "done"
    /\ args.cnn_use_layernorm
    /\ Len(args.cnn_filter_specifiers) = 2
    /\ args.cnn_filter_specifiers[1][2] = <<1>>
    /\ args.cnn_filter_specifiers[1][3] = <<2>>
    /\ \E p \in 1..4 : self.cnn[1].padding[p] < 0
    /\ forward(self.cnn, args.input_dims) # ShapeError

====
